---- MODULE Spec2Model ----
(***************************************************************************)
(* State-machine model of src/src/frontend.ts (class ZkPassport): the      *)
(* topic-keyed session maps, the shared callback arrays, the fluent config *)
(* builder, request(), cancelRequest() and the async WebSocket message     *)
(* listener, whose awaits split one handler into several atomic steps.     *)
(***************************************************************************)
EXTENDS Naturals, Sequences, FiniteSets, Bags, TLC

(* ------------------------------ bounds -------------------------------- *)
\* request() calls made in one behaviour (each opens one WebSocket client)
MaxClients == 2
\* message handlers suspended at an await at the same time
MaxInFlight == 1
\* callbacks registered and not cleared, over the five arrays together
MaxCallbacks == 2
\* predicates stored in the configs, over all keys and topics
MaxProps == 3

(* ------------------------------ inputs -------------------------------- *)
Topics == {"A", "B"}
\* request() is given the same keyPairOverride each time, as main() gives it
KeyPairs == {"k1"}
\* hex public keys a handshake may carry; BadKey is not a valid curve point
PeerKeys == {"p1", "p2"}
BadKey == "bad"
Domain == "https://demo.zkpassport.id"

\* absent values (an undefined map entry read through an index)
NoSecret == [kp |-> "-", peer |-> "-"]
Secrets == [kp : KeyPairs, peer : PeerKeys]

Kinds == {"qr", "generating", "generated", "reject", "error"}
\* a callback the caller registers, named by the session whose descriptor it
\* was registered through
Callback == [owner : Topics]

\* inner JSON-RPC messages the wallet encrypts; "garbage" is plaintext that
\* is not JSON, "other" a method the handler does not know
InnerMsgs ==
  { [method |-> "accept", param |-> "-"],
    [method |-> "reject", param |-> "-"],
    [method |-> "done", param |-> "deadbeef"],
    [method |-> "error", param |-> "boom"],
    [method |-> "other", param |-> "-"],
    [method |-> "garbage", param |-> "-"] }
NoInner == [method |-> "-", param |-> "-"]
FailInner == [method |-> "fail", param |-> "-"]

\* base64 payloads of an encryptedMessage: b64 FALSE is a string atob rejects;
\* otherwise the ciphertext of inner under key with context ctx, tampered or not
NoPayload == [b64 |-> FALSE, key |-> NoSecret, ctx |-> "-", tampered |-> FALSE, inner |-> NoInner]
Payloads ==
  {NoPayload}
  \cup [b64 : {TRUE}, key : Secrets, ctx : Topics, tampered : {FALSE}, inner : InnerMsgs]
  \cup [b64 : {TRUE}, key : Secrets, ctx : Topics, tampered : {TRUE},
        inner : {[method |-> "accept", param |-> "-"]}]

VARIABLES
  topicToConfig,            \* Record<topic, config>
  topicToKeyPair,           \* Record<topic, key pair>
  topicToWebSocketClient,   \* Record<topic, client id>
  topicToSharedSecret,      \* Record<topic, secret>
  qrCodeScannedCallbacks,
  onGeneratingProofCallbacks,
  onProofGeneratedCallbacks,
  onRejectCallbacks,
  onErrorCallbacks,
  clients,      \* WebSocket clients created so far, each with its listener's closure
  inflight,     \* bag of listener invocations suspended at an await
  descriptor,   \* per topic, the object the caller got from its last done()
  state,        \* per topic, the lifecycle position the messages stand for (observer)
  op,           \* the operation that produced this state (observer)
  effects       \* what that operation sent and which callbacks it invoked (observer)

maps == <<topicToConfig, topicToKeyPair, topicToWebSocketClient, topicToSharedSecret>>
arrays == <<qrCodeScannedCallbacks, onGeneratingProofCallbacks,
            onProofGeneratedCallbacks, onRejectCallbacks, onErrorCallbacks>>
vars == <<maps, arrays, clients, inflight, descriptor, state, op, effects>>

(* --------------------------- map helpers ------------------------------ *)
Has(f, t) == t \in DOMAIN f
Put(f, t, v) == [x \in DOMAIN f \cup {t} |-> IF x = t THEN v ELSE f[x]]
Delete(f, t) == [x \in DOMAIN f \ {t} |-> f[x]]
EmptyMap == [x \in {} |-> 0]
\* a default key standing in when the topic has no secret
SecretOfAny(t) ==
  IF Has(topicToSharedSecret, t) THEN topicToSharedSecret[t]
  ELSE [kp |-> "k1", peer |-> "p1"]
\* this.topicToSharedSecret[topic]: undefined when the key is absent
SecretOf(t) == IF Has(topicToSharedSecret, t) THEN topicToSharedSecret[t] ELSE NoSecret

CallbacksOf(kind) ==
  CASE kind = "qr" -> qrCodeScannedCallbacks
    [] kind = "generating" -> onGeneratingProofCallbacks
    [] kind = "generated" -> onProofGeneratedCallbacks
    [] kind = "reject" -> onRejectCallbacks
    [] kind = "error" -> onErrorCallbacks

Registered == Len(qrCodeScannedCallbacks) + Len(onGeneratingProofCallbacks)
              + Len(onProofGeneratedCallbacks) + Len(onRejectCallbacks)
              + Len(onErrorCallbacks)

\* the operation just performed: its name, the topic and client it ran for,
\* the error it raised or logged, and the params of a dispatched inner message
NoOp == [name |-> "init", topic |-> "-", client |-> 0, err |-> "-", param |-> "-"]
Op(n, t, c, e) == [name |-> n, topic |-> t, client |-> c, err |-> e, param |-> "-"]
OpDispatch(request, t, c) ==
  [name |-> request.method, topic |-> t, client |-> c, err |-> "-", param |-> request.param]

Init ==
  /\ topicToConfig = EmptyMap
  /\ topicToKeyPair = EmptyMap
  /\ topicToWebSocketClient = EmptyMap
  /\ topicToSharedSecret = EmptyMap
  /\ qrCodeScannedCallbacks = <<>>
  /\ onGeneratingProofCallbacks = <<>>
  /\ onProofGeneratedCallbacks = <<>>
  /\ onRejectCallbacks = <<>>
  /\ onErrorCallbacks = <<>>
  /\ clients = <<>>
  /\ inflight = EmptyBag
  /\ descriptor = EmptyMap
  /\ state = EmptyMap
  /\ op = NoOp
  /\ effects = <<>>

(* ------------------- external gateways (./encryption) ------------------ *)
\* getSharedSecret(privateKey, peerPublicKey): the ECDH secret of the pair;
\* NoSecret stands for the promise rejecting on an invalid public key
GetSharedSecret(kp, pub) ==
  IF pub \in PeerKeys THEN [kp |-> kp, peer |-> pub] ELSE NoSecret

\* decrypt(ciphertext, sharedSecret, topic): the plaintext when the ciphertext
\* was produced under the same secret and topic and is intact; FailInner
\* stands for the call failing (authentication failure or no key)
Decrypt(payload, secret, topic) ==
  IF /\ secret # NoSecret
     /\ payload.key = secret
     /\ payload.ctx = topic
     /\ ~payload.tampered
  THEN payload.inner
  ELSE FailInner

(* --------------------------- config builder ---------------------------- *)
\* JS objects keep insertion order: an object is a sequence of [name, value]
HasProp(obj, name) == \E i \in 1..Len(obj) : obj[i].name = name
GetProp(obj, name) == obj[CHOOSE i \in 1..Len(obj) : obj[i].name = name].value
\* obj[name] = value: an existing property keeps its place
SetProp(obj, name, value) ==
  IF HasProp(obj, name)
  THEN [i \in 1..Len(obj) |->
          IF obj[i].name = name THEN [name |-> name, value |-> value] ELSE obj[i]]
  ELSE Append(obj, [name |-> name, value |-> value])
\* {...obj[key]}: spreading undefined gives the empty object
Spread(obj, key) == IF HasProp(obj, key) THEN GetProp(obj, key) ELSE <<>>

\* the assignments without the spread of the key's present object
numericalCompareReplace(fnName, key, value, requestId, requestIdToConfig) ==
  Put(requestIdToConfig, requestId,
      SetProp(requestIdToConfig[requestId], key, SetProp(<<>>, fnName, value)))
rangeCompareReplace(key, value, requestId, requestIdToConfig) ==
  Put(requestIdToConfig, requestId,
      SetProp(requestIdToConfig[requestId], key, SetProp(<<>>, "range", value)))
\* the assignment replacing the whole config of the request
generalCompareAlone(fnName, key, value, requestId, requestIdToConfig) ==
  Put(requestIdToConfig, requestId, SetProp(<<>>, key, SetProp(<<>>, fnName, value)))

numericalCompare(fnName, key, value, requestId, requestIdToConfig) ==
  Put(requestIdToConfig, requestId,
      SetProp(requestIdToConfig[requestId], key,
              SetProp(Spread(requestIdToConfig[requestId], key), fnName, value)))

rangeCompare(key, value, requestId, requestIdToConfig) ==
  Put(requestIdToConfig, requestId,
      SetProp(requestIdToConfig[requestId], key,
              SetProp(Spread(requestIdToConfig[requestId], key), "range", value)))

generalCompare(fnName, key, value, requestId, requestIdToConfig) ==
  Put(requestIdToConfig, requestId,
      SetProp(requestIdToConfig[requestId], key,
              SetProp(Spread(requestIdToConfig[requestId], key), fnName, value)))

\* the builder methods of getZkPassportRequest(topic), by name
ApplyCall(call, topic, cfg) ==
  CASE call.fn \in {"gte", "gt", "lte", "lt"} ->
         numericalCompare(call.fn, call.key, call.value, topic, cfg)
    [] call.fn = "range" -> rangeCompare(call.key, call.value, topic, cfg)
    [] call.fn \in {"eq", "in", "out"} ->
         generalCompare(call.fn, call.key, call.value, topic, cfg)
    [] call.fn = "checkAML" -> cfg

\* builder calls made while the protocol runs
ProtocolCalls == { [fn |-> "gte", key |-> "age", value |-> <<18>>] }

\* a builder for topic exists once request() has returned it
HasBuilder(t) == \E c \in 1..Len(clients) : clients[c].topic = t

(* ------------------------------ request -------------------------------- *)
UsedTopics == { clients[c].topic : c \in 1..Len(clients) }
UsedKeyPairs == { clients[c].keyPair : c \in 1..Len(clients) }
\* values never used before are interchangeable: one stands for all of them
Fresh(S, used) == IF S \ used = {} THEN {} ELSE {CHOOSE x \in S \ used : TRUE}
\* topicOverride || randomBytes(16).toString('hex'): a caller's topic is one
\* already used or a new one; a random topic is a new one
TopicChoices == UsedTopics \cup Fresh(Topics, UsedTopics)
\* keyPairOverride || (await generateECDHKeyPair())
KeyPairChoices == UsedKeyPairs \cup Fresh(KeyPairs, UsedKeyPairs)

RequestBody(topic, keyPair) ==
  /\ topicToKeyPair' = Put(topicToKeyPair, topic, keyPair)
  /\ topicToConfig' = Put(topicToConfig, topic, <<>>)
  /\ clients' = Append(clients, [topic |-> topic, keyPair |-> keyPair, open |-> TRUE])
  /\ topicToWebSocketClient' = Put(topicToWebSocketClient, topic, Len(clients) + 1)
  /\ op' = Op("request", topic, Len(clients) + 1, "-")
  /\ effects' = <<>>
  /\ UNCHANGED <<topicToSharedSecret, arrays, inflight, descriptor>>

Request ==
  /\ Len(clients) < MaxClients
  /\ \E topic \in TopicChoices, keyPair \in KeyPairChoices : RequestBody(topic, keyPair)

(* --------------------------- builder, done ----------------------------- *)
Builder(calls) ==
  \E t \in Topics, call \in calls :
    /\ HasBuilder(t)
    /\ IF Has(topicToConfig, t)
       THEN /\ topicToConfig' = ApplyCall(call, t, topicToConfig)
            /\ op' = Op(call.fn, t, 0, "-")
       ELSE \* requestIdToConfig[requestId] is undefined
            /\ topicToConfig' = topicToConfig
            /\ op' = Op(call.fn, t, 0, "TypeError")
    /\ effects' = <<>>
    /\ UNCHANGED <<topicToKeyPair, topicToWebSocketClient, topicToSharedSecret,
                   arrays, clients, inflight, descriptor>>

\* JSON.stringify(config): the properties in insertion order, each key with
\* its own properties in insertion order
Stringify(obj) ==
  [i \in 1..Len(obj) |->
     <<obj[i].name,
       [j \in 1..Len(obj[i].value) |-> <<obj[i].value[j].name, obj[i].value[j].value>>]>>]
\* Buffer.from(text).toString('base64'), bytesToHex(publicKey)
Base64(text) == <<"base64", text>>
BytesToHex(keyPair) == <<"hex", keyPair>>

\* `https://zkpassport.id/r?d=${this.domain}&t=${topic}&c=${base64Config}&p=${pubkey}`
Url(topic) ==
  [d |-> Domain, t |-> topic, c |-> Base64(Stringify(topicToConfig[topic])),
   p |-> BytesToHex(topicToKeyPair[topic])]

\* the url read through from the maps whenever it is read
UrlOfLive(d) ==
  IF Has(topicToConfig, d.requestId) /\ Has(topicToKeyPair, d.requestId)
  THEN Url(d.requestId) ELSE d.url
\* the url property of a descriptor: the string built when done() ran
UrlOf(d) == d.url

Done ==
  \E t \in Topics :
    /\ HasBuilder(t)
    /\ IF Has(topicToConfig, t) /\ Has(topicToKeyPair, t)
       THEN /\ descriptor' = Put(descriptor, t, [url |-> Url(t), requestId |-> t])
            /\ op' = Op("finalize", t, 0, "-")
       ELSE \* Buffer.from(undefined) throws
            /\ descriptor' = descriptor
            /\ op' = Op("finalize", t, 0, "TypeError")
    /\ effects' = <<>>
    /\ UNCHANGED <<maps, arrays, clients, inflight>>

\* the five subscription functions of a descriptor: each pushes on a shared array
Push(kind, cb) ==
  /\ qrCodeScannedCallbacks' =
       IF kind = "qr" THEN Append(qrCodeScannedCallbacks, cb) ELSE qrCodeScannedCallbacks
  /\ onGeneratingProofCallbacks' =
       IF kind = "generating" THEN Append(onGeneratingProofCallbacks, cb)
       ELSE onGeneratingProofCallbacks
  /\ onProofGeneratedCallbacks' =
       IF kind = "generated" THEN Append(onProofGeneratedCallbacks, cb)
       ELSE onProofGeneratedCallbacks
  /\ onRejectCallbacks' =
       IF kind = "reject" THEN Append(onRejectCallbacks, cb) ELSE onRejectCallbacks
  /\ onErrorCallbacks' =
       IF kind = "error" THEN Append(onErrorCallbacks, cb) ELSE onErrorCallbacks

\* a descriptor of topic t is in the caller's hands once done() was called on
\* the builder request() returned for t; done() itself changes nothing
Register ==
  \E t \in Topics, kind \in Kinds :
    /\ HasBuilder(t)
    /\ Registered < MaxCallbacks
    /\ Push(kind, [owner |-> t])
    /\ op' = Op("register", t, 0, "-")
    /\ effects' = <<>>
    /\ UNCHANGED <<maps, clients, inflight, descriptor>>

(* ---------------------------- cancelRequest ---------------------------- *)
Close(cs, c) == [cs EXCEPT ![c].open = FALSE]

CancelBody(requestId) ==
  /\ clients' = Close(clients, topicToWebSocketClient[requestId])
  /\ topicToWebSocketClient' = Delete(topicToWebSocketClient, requestId)
  /\ topicToKeyPair' = Delete(topicToKeyPair, requestId)
  /\ topicToConfig' = Delete(topicToConfig, requestId)
  /\ topicToSharedSecret' = Delete(topicToSharedSecret, requestId)
  /\ qrCodeScannedCallbacks' = <<>>
  /\ onGeneratingProofCallbacks' = <<>>
  /\ onProofGeneratedCallbacks' = <<>>
  /\ onErrorCallbacks' = <<>>
  /\ UNCHANGED onRejectCallbacks

cancelRequest ==
  \E requestId \in Topics :
    /\ IF Has(topicToWebSocketClient, requestId)
       THEN /\ CancelBody(requestId)
            /\ op' = Op("cancel", requestId, topicToWebSocketClient[requestId], "-")
       ELSE \* undefined.close()
            /\ UNCHANGED <<maps, arrays, clients>>
            /\ op' = Op("cancel", requestId, 0, "TypeError")
    /\ effects' = <<>>
    /\ UNCHANGED <<inflight, descriptor>>

(* --------------------------- message listener -------------------------- *)
\* inbound relay messages; "other" is an unknown method, "garbage" is not JSON
Messages ==
  [method : {"handshake"}, pubkey : PeerKeys \cup {BadKey}, payload : {NoPayload}]
  \cup [method : {"encryptedMessage"}, pubkey : {"-"}, payload : Payloads]
  \cup [method : {"other", "garbage"}, pubkey : {"-"}, payload : {NoPayload}]

Handler(c, pc, secret, inner) == [client |-> c, pc |-> pc, secret |-> secret, inner |-> inner]
Suspend(h) == inflight (+) SetToBag({h})
Resume(h) == inflight (-) SetToBag({h})

SendEffect(c, key, ctx) ==
  [type |-> "send", kind |-> "hello", idx |-> 0, owner |-> ctx, throws |-> FALSE,
   arg |-> "-", client |-> c, key |-> key]
FireEffect(kind, i, cb, arg, threw) ==
  [type |-> "fire", kind |-> kind, idx |-> i, owner |-> cb.owner, throws |-> threw,
   arg |-> arg, client |-> 0, key |-> NoSecret]

\* callbacks.forEach((callback) => callback(arg)): the callbacks are invoked
\* in array order; any of them may throw, which ends the loop (the exception
\* leaves forEach). Each outcome is the sequence of invocations made.
Invocations(kind, cbs, arg, n, threw) ==
  [i \in 1..n |-> FireEffect(kind, i, cbs[i], arg, threw /\ i = n)]
ForEach(kind, cbs, arg) ==
  {Invocations(kind, cbs, arg, Len(cbs), FALSE)}
  \cup {Invocations(kind, cbs, arg, n, TRUE) : n \in 1..Len(cbs)}

\* the 'reject' branch fires the onError callbacks
handleEncryptedMessageSwapped(topic, request) ==
  CASE request.method = "accept" -> ForEach("generating", onGeneratingProofCallbacks, topic)
    [] request.method = "reject" -> ForEach("error", onErrorCallbacks, "-")
    [] request.method = "done" -> ForEach("generated", onProofGeneratedCallbacks, request.param)
    [] request.method = "error" -> ForEach("error", onErrorCallbacks, request.param)
    [] OTHER -> {<<>>}

\* handleEncryptedMessage(topic, request, outerRequest)
handleEncryptedMessage(topic, request) ==
  CASE request.method = "accept" -> ForEach("generating", onGeneratingProofCallbacks, topic)
    [] request.method = "reject" -> ForEach("reject", onRejectCallbacks, "-")
    [] request.method = "done" -> ForEach("generated", onProofGeneratedCallbacks, request.param)
    [] request.method = "error" -> ForEach("error", onErrorCallbacks, request.param)
    [] OTHER -> {<<>>}

\* the 'message' event: the listener runs up to its first await.
\* The transport raises message events on an open connection only.
DeliverWithin(c, data, limit) ==
    LET topic == clients[c].topic
        keyPair == clients[c].keyPair IN
    /\ clients[c].open
    /\ effects' = <<>>
    /\ UNCHANGED <<maps, arrays, clients, descriptor>>
    /\ \/ /\ data.method = "handshake"
          /\ BagCardinality(inflight) < limit
          /\ inflight' = Suspend(Handler(c, "getSharedSecret",
                                         GetSharedSecret(keyPair, data.pubkey), NoInner))
          /\ op' = Op("handshake", topic, c, "-")
       \/ /\ data.method = "encryptedMessage"
          /\ ~data.payload.b64          \* atob throws; the outer catch logs it
          /\ inflight' = inflight
          /\ op' = Op("encryptedMessage", topic, c, "atob")
       \/ /\ data.method = "encryptedMessage"
          /\ data.payload.b64
          /\ BagCardinality(inflight) < limit
          /\ inflight' = Suspend(Handler(c, "decrypt", NoSecret,
                                         Decrypt(data.payload, SecretOf(topic), topic)))
          /\ op' = Op("encryptedMessage", topic, c, "-")
       \/ /\ data.method \in {"other", "garbage"}
          /\ inflight' = inflight
          /\ op' = Op("ignored", topic, c, "-")

DeliverMsg(c, data) == DeliverWithin(c, data, MaxInFlight)

Deliver == \E c \in 1..Len(clients), data \in Messages : DeliverMsg(c, data)

\* this.topicToSharedSecret[topic] = await getSharedSecret(...), then the call
\* of createEncryptedJsonRpcRequest('hello', null, secret, topic)
StoreSecret(topic, secret) == Put(topicToSharedSecret, topic, secret)

SecretDerived ==
  \E h \in BagToSet(inflight) :
    LET topic == clients[h.client].topic IN
    /\ h.pc = "getSharedSecret"
    /\ effects' = <<>>
    /\ UNCHANGED <<topicToConfig, topicToKeyPair, topicToWebSocketClient, arrays,
                   clients, descriptor>>
    /\ IF h.secret = NoSecret
       THEN \* the promise rejects; the outer catch logs it
            /\ inflight' = Resume(h)
            /\ op' = Op("handshakeFailed", topic, h.client, "-")
            /\ UNCHANGED topicToSharedSecret
       ELSE /\ topicToSharedSecret' = StoreSecret(topic, h.secret)
            /\ inflight' = Resume(h) (+)
                 SetToBag({Handler(h.client, "createEncrypted",
                                   topicToSharedSecret'[topic], NoInner)})
            /\ op' = Op("secretStored", topic, h.client, "-")

\* wsClient.send(JSON.stringify(encryptedMessage)), then
\* this.qrCodeScannedCallbacks.forEach((callback) => callback())
HelloEffects(h, topic) ==
  { <<SendEffect(h.client, h.secret, topic)>> \o fired :
      fired \in ForEach("qr", qrCodeScannedCallbacks, "-") }

HelloSent ==
  \E h \in BagToSet(inflight) :
    LET topic == clients[h.client].topic IN
    /\ h.pc = "createEncrypted"
    /\ inflight' = Resume(h)
    /\ UNCHANGED <<maps, arrays, clients, descriptor>>
    /\ \/ /\ clients[h.client].open
          /\ effects' \in HelloEffects(h, topic)
          /\ op' = Op("helloSent", topic, h.client, "-")
       \/ \* send on a closed socket throws: the outer catch logs it
          /\ ~clients[h.client].open
          /\ effects' = <<>>
          /\ op' = Op("helloSent", topic, h.client, "sendThrew")
       \/ \* send on a closed socket discards the data silently
          /\ ~clients[h.client].open
          /\ effects' \in ForEach("qr", qrCodeScannedCallbacks, "-")
          /\ op' = Op("helloSent", topic, h.client, "discarded")

\* the catch reports the failure to the onError callbacks
OnDecryptErrorSurfaced == effects' \in ForEach("error", onErrorCallbacks, "decrypt")

\* catch (error) { logger.error('Error decrypting message:', error) }
OnDecryptError == effects' = <<>>

\* const decrypted = await decrypt(...); JSON.parse(decrypted);
\* this.handleEncryptedMessage(topic, decryptedJson, data)
Decrypted ==
  \E h \in BagToSet(inflight) :
    LET topic == clients[h.client].topic IN
    /\ h.pc = "decrypt"
    /\ inflight' = Resume(h)
    /\ UNCHANGED <<maps, arrays, clients, descriptor>>
    /\ IF h.inner = FailInner
       THEN \* decrypt rejects; the inner catch logs it
            /\ OnDecryptError
            /\ op' = Op("decryptFailed", topic, h.client, "-")
       ELSE IF h.inner.method = "garbage"
       THEN \* JSON.parse throws; the inner catch logs it
            /\ OnDecryptError
            /\ op' = Op("parseFailed", topic, h.client, "-")
       ELSE /\ effects' \in handleEncryptedMessage(topic, h.inner)
            /\ op' = OpDispatch(h.inner, topic, h.client)

(* --------------------------- lifecycle observer ------------------------ *)
\* The code keeps no lifecycle variable. The observer follows the positions
\* the handled messages stand for: request() creates the session, the first
\* stored secret establishes it, a dispatched inner method moves it as its
\* branch of handleEncryptedMessage says, cancelRequest() cancels it.
Observe(old, o) ==
  CASE o.name = "request" -> Put(old, o.topic, "CREATED")
    [] o.name = "secretStored" /\ old[o.topic] = "CREATED" -> Put(old, o.topic, "ESTABLISHED")
    [] o.name = "accept" -> Put(old, o.topic, "GENERATING_PROOF")
    [] o.name = "reject" -> Put(old, o.topic, "REJECTED")
    [] o.name = "done" -> Put(old, o.topic, "COMPLETED")
    [] o.name = "error" -> Put(old, o.topic, "FAILED")
    [] o.name = "cancel" /\ o.err = "-" -> Put(old, o.topic, "CANCELLED")
    [] OTHER -> old

\* a message handled for a topic that has no session moves no session
Observed ==
  state' = IF op'.name \in {"request", "cancel"} \/ Has(topicToWebSocketClient, op'.topic)
           THEN Observe(state, op')
           ELSE state

(* --------------------------- specifications ---------------------------- *)
\* the protocol with the callback registries
Next ==
  \/ Request /\ UNCHANGED state
  \/ Register /\ UNCHANGED state
  \/ cancelRequest /\ UNCHANGED state
  \/ Deliver /\ UNCHANGED state
  \/ SecretDerived /\ UNCHANGED state
  \/ HelloSent /\ UNCHANGED state
  \/ Decrypted /\ UNCHANGED state

Spec == Init /\ [][Next]_vars

\* the protocol under the lifecycle observer, no callbacks registered
NextLifecycle ==
  \/ Request /\ Observed
  \/ cancelRequest /\ Observed
  \/ Deliver /\ Observed
  \/ SecretDerived /\ Observed
  \/ HelloSent /\ Observed
  \/ Decrypted /\ Observed

SpecLifecycle == Init /\ [][NextLifecycle]_vars

\* the builder: request(), builder calls, done() and cancelRequest()
Age == "age"
Nationality == "nationality"
\* the builder calls a caller makes; a range's value is [start, end], and
\* [25, 18] is an inverted one
BuilderCalls ==
  { [fn |-> "gte", key |-> Age, value |-> <<18>>],
    [fn |-> "gte", key |-> Age, value |-> <<21>>],
    [fn |-> "eq", key |-> Age, value |-> <<18>>],
    [fn |-> "range", key |-> Age, value |-> <<18, 25>>],
    [fn |-> "range", key |-> Age, value |-> <<25, 18>>],
    [fn |-> "out", key |-> Age, value |-> <<30>>],
    [fn |-> "out", key |-> Nationality, value |-> <<408>>],
    [fn |-> "checkAML", key |-> "-", value |-> <<>>] }

\* the number of predicates stored in a config, over all its keys
RECURSIVE PropCount(_)
PropCount(obj) ==
  IF obj = <<>> THEN 0 ELSE Len(Head(obj).value) + PropCount(Tail(obj))
RECURSIVE Stored(_, _)
Stored(cfgs, ts) ==
  IF ts = {} THEN 0
  ELSE LET t == CHOOSE x \in ts : TRUE IN PropCount(cfgs[t]) + Stored(cfgs, ts \ {t})

Build(calls) ==
  /\ Builder(calls)
  /\ Stored(topicToConfig', DOMAIN topicToConfig') <= MaxProps

NextBuilder ==
  \/ Request /\ UNCHANGED state
  \/ Build(BuilderCalls) /\ UNCHANGED state
  \/ cancelRequest /\ UNCHANGED state

SpecBuilder == Init /\ [][NextBuilder]_vars

\* the builder with done(): the calls made around a done()
DoneCalls ==
  { [fn |-> "gte", key |-> Age, value |-> <<18>>],
    [fn |-> "gte", key |-> Age, value |-> <<21>>],
    [fn |-> "out", key |-> Nationality, value |-> <<408>>] }

NextDone ==
  \/ Request /\ UNCHANGED state
  \/ Build(DoneCalls) /\ UNCHANGED state
  \/ Done /\ UNCHANGED state
  \/ cancelRequest /\ UNCHANGED state

SpecDone == Init /\ [][NextDone]_vars

\* the listener with one more handler in flight: a message can arrive while
\* the handler of the one before it is suspended at an await. The wallet's
\* messages only: a handshake, and 'accept' and 'done' encrypted for the
\* session of the connection.
WalletMessages(c) ==
  LET key == GetSharedSecret(clients[c].keyPair, "p1") IN
  { [method |-> "handshake", pubkey |-> "p1", payload |-> NoPayload] }
  \cup { [method |-> "encryptedMessage", pubkey |-> "-",
          payload |-> [b64 |-> TRUE, key |-> key, ctx |-> clients[c].topic,
                       tampered |-> FALSE, inner |-> request]] :
            request \in {[method |-> "accept", param |-> "-"],
                         [method |-> "done", param |-> "deadbeef"]} }

DeliverConcurrent ==
  \E c \in 1..Len(clients) :
    \E data \in WalletMessages(c) : DeliverWithin(c, data, MaxInFlight + 1)

NextConcurrent ==
  \/ Request /\ UNCHANGED state
  \/ Register /\ UNCHANGED state
  \/ cancelRequest /\ UNCHANGED state
  \/ DeliverConcurrent /\ UNCHANGED state
  \/ SecretDerived /\ UNCHANGED state
  \/ HelloSent /\ UNCHANGED state
  \/ Decrypted /\ UNCHANGED state

SpecConcurrent == Init /\ [][NextConcurrent]_vars

(* ------------------------------- claims -------------------------------- *)
\* a live session: created by request() and not cancelled
Live(t) == Has(topicToWebSocketClient, t)
\* cancelled and not created again
Cancelled(t) == HasBuilder(t) /\ ~Live(t)
\* the steps of the message listener
MessageOps == {"handshake", "encryptedMessage", "ignored", "handshakeFailed",
               "secretStored", "helloSent", "decryptFailed", "parseFailed",
               "accept", "reject", "done", "error", "other"}
\* the entries of topic t in the four session maps
Entry(f, t) == IF Has(f, t) THEN <<f[t]>> ELSE <<>>
SessionOf(t) == <<Entry(topicToConfig, t), Entry(topicToKeyPair, t),
                  Entry(topicToWebSocketClient, t), Entry(topicToSharedSecret, t)>>
\* the callbacks of one event kind registered through the descriptor of t
OwnedBy(cbs, t) == SelectSeq(cbs, LAMBDA cb : cb.owner = t)
Fires(e) == e.type = "fire"
Sends(e) == e.type = "send"

\* C1: in a live session the shared secret is set at most once: once
\* topicToSharedSecret[topic] is present, no later step of the message
\* listener for that topic changes it.
C1_SecretSetAtMostOnce ==
  [][\A t \in Topics :
       (Live(t) /\ Has(topicToSharedSecret, t) /\ op'.name \in MessageOps /\ op'.topic = t)
       => (Has(topicToSharedSecret', t) /\ topicToSharedSecret'[t] = topicToSharedSecret[t])]_vars

\* C2: once cancelRequest(topic) has returned, no step of the message
\* listener for a message of that session (one that came on the connection
\* the cancel closed, its handler suspended at an await when the cancel ran
\* included) changes a session map, sends on the transport or fires a callback.
C2_DropAfterCancel ==
  [][\A t \in Topics :
       (Cancelled(t) /\ op'.name \in MessageOps /\ op'.topic = t
          /\ ~clients[op'.client].open)
       => (maps' = maps /\ effects' = <<>>)]_vars

\* C3: for two distinct live topics, a callback registered through the
\* descriptor of one is never invoked by a message delivered on the
\* connection of the other.
C3_CallbackIsolation ==
  \A i \in 1..Len(effects) :
    (Fires(effects[i]) /\ Live(effects[i].owner) /\ Live(op.topic))
    => effects[i].owner = op.topic

\* C4: cancelRequest(A) leaves every other live session B unchanged: the
\* entries of B in the four maps, its open transport, and the callbacks
\* registered for B in each of the five arrays.
C4_CancelLeavesOthers ==
  [][(op'.name = "cancel" /\ op'.err = "-")
     => \A b \in Topics \ {op'.topic} :
          Live(b) =>
            /\ SessionOf(b)' = SessionOf(b)
            /\ clients'[topicToWebSocketClient[b]].open
            /\ \A kind \in Kinds : OwnedBy(CallbacksOf(kind), b)' = OwnedBy(CallbacksOf(kind), b)]_vars

\* an encryptedMessage that cannot be decrypted: atob rejects the payload,
\* or decrypt fails (tampered ciphertext, another key or topic, no secret yet)
Undecryptable(o) ==
  \/ o.name = "encryptedMessage" /\ o.err = "atob"
  \/ o.name = "decryptFailed"
HandshakeMsg(pub) == [method |-> "handshake", pubkey |-> pub, payload |-> NoPayload]
EncryptedMsg(key, ctx, request) ==
  [method |-> "encryptedMessage", pubkey |-> "-",
   payload |-> [b64 |-> TRUE, key |-> key, ctx |-> ctx, tampered |-> FALSE, inner |-> request]]
AcceptMsg == [method |-> "accept", param |-> "-"]
\* the listener of client c takes a valid handshake, and a message encrypted
\* under the session's secret to the point of dispatching it
TakesHandshake(c) ==
  ENABLED (/\ DeliverMsg(c, HandshakeMsg("p1"))
           /\ \E h \in BagToSet(inflight') : h.pc = "getSharedSecret" /\ h.secret # NoSecret)
TakesEncrypted(c) ==
  ENABLED (/\ DeliverMsg(c, EncryptedMsg(SecretOf(clients[c].topic), clients[c].topic, AcceptMsg))
           /\ \E h \in BagToSet(inflight') : h.pc = "decrypt" /\ h.inner = AcceptMsg)
Responsive ==
  (/\ Undecryptable(op)
   /\ Live(op.topic)
   /\ clients[op.client].open
   /\ BagCardinality(inflight) < MaxInFlight)
  => /\ TakesHandshake(op.client)
     /\ Has(topicToSharedSecret, op.topic) => TakesEncrypted(op.client)

\* C5: an encryptedMessage that cannot be decrypted fires no callback and
\* changes no session state (maps, callback arrays, connections), and the
\* session stays responsive: its listener still takes a valid handshake and
\* a valid encryptedMessage, whose handlers store the secret and send the
\* hello, and dispatch the inner message.
C5_UndecryptableIsDropped ==
  /\ [][/\ Undecryptable(op') =>
             (effects' = <<>> /\ maps' = maps /\ arrays' = arrays /\ clients' = clients)
        /\ (op'.name = "secretStored" /\ Live(op'.topic)) => Has(topicToSharedSecret', op'.topic)
        /\ (op'.name = "helloSent" /\ op'.err = "-") =>
             (Len(effects') >= 1 /\ Sends(effects'[1]))
        /\ (op'.name = "accept" /\ Len(onGeneratingProofCallbacks) > 0) =>
             (Len(effects') >= 1 /\ Fires(effects'[1]))]_vars
  /\ []Responsive

C5_Witness ==
  /\ op.name = "decryptFailed"
  /\ Live(op.topic)
  /\ clients[op.client].open
  /\ Has(topicToSharedSecret, op.topic)
  /\ Registered > 0

\* C6: the handler of a handshake with a valid public key, on the connection
\* of a live topic, stores the secret, then sends exactly one hello on that
\* connection, encrypted under the stored secret, then invokes each registered
\* onQRCodeScanned callback exactly once, in order.
C6_HandshakeCompletes ==
  [][/\ (op'.name = "secretStored" /\ Live(op'.topic)) => Has(topicToSharedSecret', op'.topic)
     /\ (op'.name = "helloSent" /\ Live(op'.topic)
           /\ op'.client = topicToWebSocketClient[op'.topic]) =>
          /\ Len(effects') = 1 + Len(qrCodeScannedCallbacks)
          /\ Sends(effects'[1])
          /\ effects'[1].client = op'.client
          /\ effects'[1].key = SecretOf(op'.topic)
          /\ \A i \in 1..Len(qrCodeScannedCallbacks) :
               /\ Fires(effects'[i + 1])
               /\ effects'[i + 1].kind = "qr"
               /\ effects'[i + 1].idx = i]_vars

\* the event kind and the argument each inner method is dispatched with
KindOf(method) ==
  CASE method = "accept" -> "generating"
    [] method = "reject" -> "reject"
    [] method = "done" -> "generated"
    [] method = "error" -> "error"
    [] OTHER -> "-"
ArgOf(o) ==
  CASE o.name = "accept" -> o.topic
    [] o.name \in {"done", "error"} -> o.param
    [] OTHER -> "-"
Threw(fired) == \E i \in 1..Len(fired) : fired[i].throws

\* C7: a decrypted inner message fires only the callbacks of its method's
\* kind ('accept' onGeneratingProof with the topic, 'reject' onReject, 'done'
\* onProofGenerated with params.proof, 'error' onError with params.error), in
\* registration order from the first one on, all of them unless one throws;
\* any other method fires nothing; and no session state changes.
C7_InnerMethodDispatch ==
  [][op'.name \in {"accept", "reject", "done", "error", "other"} =>
       /\ maps' = maps /\ arrays' = arrays /\ clients' = clients
       /\ op'.name = "other" => effects' = <<>>
       /\ op'.name # "other" =>
            LET cbs == CallbacksOf(KindOf(op'.name)) IN
            /\ Len(effects') <= Len(cbs)
            /\ Len(cbs) > 0 => Len(effects') > 0
            /\ ~Threw(effects') => Len(effects') = Len(cbs)
            /\ \A i \in 1..Len(effects') :
                 /\ Fires(effects'[i])
                 /\ effects'[i].kind = KindOf(op'.name)
                 /\ effects'[i].idx = i
                 /\ effects'[i].owner = cbs[i].owner
                 /\ effects'[i].arg = ArgOf(op')]_vars

C7_Witness ==
  /\ op.name = "done"
  /\ Len(effects) = 1
  /\ effects[1].kind = "generated"
  /\ effects[1].arg = "deadbeef"
  /\ Len(onGeneratingProofCallbacks) = 1

Terminal == {"COMPLETED", "REJECTED", "FAILED", "CANCELLED"}

\* C8: the terminal positions are absorbing: once a session is COMPLETED,
\* REJECTED, FAILED or CANCELLED, no step of the message listener moves it.
C8_TerminalAbsorbing ==
  [][\A t \in DOMAIN state :
       (state[t] \in Terminal /\ op'.name \in MessageOps) => state'[t] = state[t]]_vars

OpenClients(t) == {c \in 1..Len(clients) : clients[c].topic = t /\ clients[c].open}

\* C9: request() on the topic of a live session fails with a configuration
\* error and leaves the session as it was; so every live topic has at most
\* one open connection.
C9_DuplicateTopicRejected ==
  [][/\ (op'.name = "request" /\ Live(op'.topic)) =>
          (op'.err = "ConfigurationError" /\ maps' = maps /\ clients' = clients)
     /\ \A t \in Topics : Cardinality(OpenClients(t)') <= 1]_vars

\* C10: cancelRequest(topic) for a topic with no session (never created, or
\* cancelled) raises no error and changes no state.
C10_CancelIdempotent ==
  [][(op'.name = "cancel" /\ ~Live(op'.topic)) =>
       (op'.err = "-" /\ maps' = maps /\ arrays' = arrays /\ clients' = clients)]_vars

\* C11: cancelRequest(topic) purges the session: afterwards the topic has no
\* entry in any of the four maps, its connection is closed, and no callback
\* registered for that session is left in any of the five arrays.
C11_CancelPurges ==
  [][\A t \in Topics :
       (op'.name = "cancel" /\ op'.err = "-" /\ op'.topic = t) =>
         /\ SessionOf(t)' = <<<<>>, <<>>, <<>>, <<>>>>
         /\ ~clients'[op'.client].open
         /\ \A kind \in Kinds : OwnedBy(CallbacksOf(kind), t)' = <<>>]_vars

\* the invocations among the effects of a step
FiresOf(es) == SelectSeq(es, Fires)
\* the array a step of the listener iterates: the handshake's last step the
\* onQRCodeScanned callbacks, a dispatched inner method those of its kind
FiredArray(o) ==
  IF o.name = "helloSent" THEN qrCodeScannedCallbacks ELSE CallbacksOf(KindOf(o.name))

\* C16: firing an event invokes every callback registered for its kind, in
\* registration order, whether or not one of them throws: the handshake event
\* and each of the four inner-message events.
C16_EveryCallbackRuns ==
  [][((op'.name = "helloSent" /\ op'.err = "-")
        \/ op'.name \in {"accept", "reject", "done", "error"}) =>
       /\ Len(FiresOf(effects')) = Len(FiredArray(op'))
       /\ \A i \in 1..Len(FiresOf(effects')) : FiresOf(effects')[i].idx = i]_vars

\* C20: in every reachable state topicToKeyPair, topicToConfig and
\* topicToWebSocketClient have the same keys, and every key of
\* topicToSharedSecret is a key of those three.
C20_MapsAgree ==
  /\ DOMAIN topicToKeyPair = DOMAIN topicToConfig
  /\ DOMAIN topicToConfig = DOMAIN topicToWebSocketClient
  /\ DOMAIN topicToSharedSecret \subseteq DOMAIN topicToWebSocketClient

\* the properties of an object, whatever their order
Props(obj) == {obj[i] : i \in 1..Len(obj)}
PropNames(obj) == [i \in 1..Len(obj) |-> obj[i].name]
Predicate(call) == [name |-> call.fn, value |-> call.value]
\* this step is the builder call `call` on topic t, and it returned
Calls(call, t) ==
  /\ call.fn # "checkAML"
  /\ Has(topicToConfig, t)
  /\ op'.name = call.fn /\ op'.topic = t /\ op'.err = "-"
  /\ topicToConfig' = ApplyCall(call, t, topicToConfig)

\* C12: a builder call of one kind on a key leaves exactly its value for that
\* kind on that key (the value of an earlier call of the same kind is gone)
\* and keeps the value of every other kind stored for that key.
C12_LastWriteWinsMerge ==
  [][\A t \in Topics, call \in BuilderCalls :
       Calls(call, t) =>
         LET old == Spread(topicToConfig[t], call.key)
             new == Spread(topicToConfig'[t], call.key) IN
         /\ Props(new) = {q \in Props(old) : q.name # call.fn} \cup {Predicate(call)}
         /\ Len(new) = Cardinality(Props(new))]_vars

C12_Witness ==
  \E t \in DOMAIN topicToConfig :
    /\ op.name = "gte" /\ op.topic = t /\ op.err = "-"
    /\ HasProp(topicToConfig[t], Age)
    /\ PropNames(GetProp(topicToConfig[t], Age)) = <<"gte", "eq">>
    /\ GetProp(GetProp(topicToConfig[t], Age), "gte") = <<21>>

\* builder calls applied one after the other
RECURSIVE ApplyAll(_, _, _)
ApplyAll(calls, t, cfg) ==
  IF calls = <<>> THEN cfg ELSE ApplyAll(Tail(calls), t, ApplyCall(Head(calls), t, cfg))
Orders == {p \in [1..3 -> 1..3] : \A i, j \in 1..3 : p[i] = p[j] => i = j}
\* three calls of pairwise distinct kinds on one key
KindRank(fn) ==
  CASE fn = "eq" -> 1 [] fn = "range" -> 2 [] fn = "out" -> 3 [] fn = "gte" -> 4
    [] OTHER -> 0
Triples ==
  {tr \in BuilderCalls \X BuilderCalls \X BuilderCalls :
     /\ tr[1].key = tr[2].key /\ tr[2].key = tr[3].key
     /\ 0 < KindRank(tr[1].fn)
     /\ KindRank(tr[1].fn) < KindRank(tr[2].fn)
     /\ KindRank(tr[2].fn) < KindRank(tr[3].fn)}
KeyConfigAfter(tr, p, t) ==
  Props(Spread(ApplyAll(<<tr[p[1]], tr[p[2]], tr[p[3]]>>, t, topicToConfig)[t], tr[1].key))

\* C13: from any config, builder calls of three pairwise distinct kinds on one
\* key (eq, range and out among them), applied in any of the six orders, give
\* the same predicates for that key.
C13_OrderIndependent ==
  \A t \in DOMAIN topicToConfig, tr \in Triples, p \in Orders :
    KeyConfigAfter(tr, p, t) = KeyConfigAfter(tr, <<1, 2, 3>>, t)

C13_Witness ==
  \E t \in DOMAIN topicToConfig :
    /\ HasProp(topicToConfig[t], Age)
    /\ PropNames(GetProp(topicToConfig[t], Age)) = <<"out", "range", "eq">>

\* C15: range(key, start, end) with start > end raises a configuration error
\* and leaves the config as it was.
C15_InvertedRangeRejected ==
  [][\A t \in Topics, call \in BuilderCalls :
       (/\ call.fn = "range" /\ call.value[1] > call.value[2]
        /\ Has(topicToConfig, t)
        /\ op'.name = "range" /\ op'.topic = t
        /\ topicToConfig' \in {topicToConfig, ApplyCall(call, t, topicToConfig)})
       => (op'.err = "ConfigurationError" /\ topicToConfig' = topicToConfig)]_vars

\* C19: a builder call on key k of topic T leaves every other key of T's
\* config, and the config of every other topic, as they were.
C19_BuilderCallIsLocal ==
  [][\A t \in Topics, call \in BuilderCalls :
       Calls(call, t) =>
         /\ \A k \in {Age, Nationality} \ {call.key} :
              /\ HasProp(topicToConfig'[t], k) = HasProp(topicToConfig[t], k)
              /\ Spread(topicToConfig'[t], k) = Spread(topicToConfig[t], k)
         /\ \A u \in Topics \ {t} : Entry(topicToConfig, u)' = Entry(topicToConfig, u)
         /\ DOMAIN topicToConfig' = DOMAIN topicToConfig]_vars

C19_Witness ==
  \E t, u \in DOMAIN topicToConfig :
    /\ t # u
    /\ op.name = "out" /\ op.topic = t /\ op.err = "-"
    /\ PropNames(topicToConfig[t]) = <<Age, Nationality>>
    /\ PropNames(GetProp(topicToConfig[t], Age)) = <<"range">>
    /\ PropNames(GetProp(topicToConfig[t], Nationality)) = <<"out">>
    /\ topicToConfig[u] # <<>>

BuilderFns == {call.fn : call \in BuilderCalls}

\* C14: the url of a descriptor returned by done() is fixed when done()
\* returns: no later builder call changes it, and a done() right after a
\* done() on the same builder returns the same url and requestId.
C14_DoneIsSnapshot ==
  [][\A t \in Topics :
       Has(descriptor, t) =>
         /\ op'.name \in BuilderFns =>
              /\ Has(descriptor', t)
              /\ UrlOf(descriptor[t])' = UrlOf(descriptor[t])
         /\ (/\ op.name = "finalize" /\ op.topic = t /\ op.err = "-"
             /\ op'.name = "finalize" /\ op'.topic = t /\ op'.err = "-") =>
              /\ UrlOf(descriptor[t])' = UrlOf(descriptor[t])
              /\ descriptor'[t].requestId = descriptor[t].requestId]_vars

C14_Witness ==
  \E t \in DOMAIN descriptor :
    /\ op.name = "gte" /\ op.topic = t /\ op.err = "-"
    /\ Has(topicToConfig, t) /\ Has(topicToKeyPair, t)
    /\ UrlOf(descriptor[t]) # Url(t)
    /\ descriptor[t].requestId = t

InnerKinds == {"generating", "generated", "reject", "error"}
\* the handlers a step has started
Started == BagToSet(inflight' (-) inflight)

\* C17: no onGeneratingProof, onReject, onProofGenerated or onError callback
\* fires for a message that came before the topic's secret was set: the
\* decrypt of an encryptedMessage taken while the topic has no secret (its
\* handshake handler still awaiting the key derivation included) fails, a
\* failed decrypt is dropped without effect, and those callbacks are fired
\* only by a handler whose decrypt succeeded.
C17_HandshakeBeforeEncrypted ==
  [][/\ (op'.name = "encryptedMessage" /\ op'.err = "-"
           /\ ~Has(topicToSharedSecret, op'.topic)) =>
          \A h \in Started : h.inner = FailInner
     /\ op'.name = "decryptFailed" =>
          (effects' = <<>> /\ maps' = maps /\ arrays' = arrays /\ clients' = clients)
     /\ (\E i \in 1..Len(effects') : Fires(effects'[i]) /\ effects'[i].kind \in InnerKinds) =>
          \E h \in BagToSet(inflight) :
            /\ h.pc = "decrypt" /\ h.inner # FailInner /\ h.client = op'.client
            /\ inflight' = Resume(h)]_vars

C17_Witness ==
  /\ op.name = "decryptFailed"
  /\ Live(op.topic)
  /\ ~Has(topicToSharedSecret, op.topic)
  /\ \E h \in BagToSet(inflight) : h.pc = "getSharedSecret" /\ h.client = op.client
  /\ Len(onGeneratingProofCallbacks) > 0

\* C18: the handlers of two messages on one connection do not interleave:
\* while a handshake handler that has stored its secret has still to send its
\* hello and fire its callbacks, no other handler of that connection stores a
\* secret or dispatches an inner message.
C18_RunToCompletion ==
  [][\A h \in BagToSet(inflight) :
       (h.pc = "createEncrypted" /\ op'.client = h.client)
       => op'.name \notin {"secretStored", "accept", "reject", "done", "error"}]_vars

====
